---------------------------- MODULE Spec2Model ----------------------------
(***************************************************************************)
(* A model of the secureconfig package (binary container, secureconfig.go *)
(* with the SCFG format): the in-memory table Config.DB, the container    *)
(* file, and the operations NewConfigWithFile, Store, Retrieve, ListKeys  *)
(* and Delete.                                                             *)
(*                                                                         *)
(* A Go string or []byte is a sequence of byte values 0..255.  Go's map   *)
(* iteration order is unspecified, so every `range c.DB` takes its order  *)
(* as an input of the action.  AES-GCM itself is library code: GCMSeal    *)
(* and GCMOpen are a keyed, nonce-dependent stream cipher with a 16 byte  *)
(* tag that has the properties the package relies on (Open inverts Seal   *)
(* under the same key and nonce, and rejects another key or a changed    *)
(* byte).                                                                  *)
(***************************************************************************)
EXTENDS Integers, Sequences, FiniteSets, TLC

VARIABLES file, cfg, genKey, puts, last

vars == <<file, cfg, genKey, puts, last>>

---------------------------------------------------------------------------
(* Bounds of the model *)

\* Most non-reserved entries a table may hold before Store is no longer taken.
MaxEntries == 2

---------------------------------------------------------------------------
(* Byte strings *)

Str_empty == <<>>
Str_k == <<107>>
Str_a == <<97>>
Str_b == <<98>>
Str_x == <<120>>
Str_y == <<121>>

\* "SCFG"
MagicHeader == <<83, 67, 70, 71>>
Version == 1

KeySize == 32
NonceSize == 12
TagSize == 16

RECURSIVE Concat(_)
Concat(ss) == IF ss = <<>> THEN <<>> ELSE Head(ss) \o Concat(Tail(ss))

RECURSIVE SumBytes(_)
SumBytes(s) == IF s = <<>> THEN 0 ELSE Head(s) + SumBytes(Tail(s))

RECURSIVE Perms(_)
Perms(S) ==
    IF S = {} THEN { <<>> }
    ELSE UNION { { <<x>> \o p : p \in Perms(S \ {x}) } : x \in S }

\* binary.BigEndian.PutUint32 / Uint32
PutUint32(n) ==
    << (n \div 16777216) % 256, (n \div 65536) % 256, (n \div 256) % 256, n % 256 >>

Uint32(b) == b[1] * 16777216 + b[2] * 65536 + b[3] * 256 + b[4]

---------------------------------------------------------------------------
(* fmt.Sprintf("%x", key) and fmt.Sscanf(keyStr, "%x", &key) *)

HexChar(n) == IF n < 10 THEN 48 + n ELSE 87 + n

\* fmt's hexDigit: 0-9, a-f, A-F; -1 for any other byte
HexDigit(c) ==
    IF c >= 48 /\ c <= 57 THEN c - 48
    ELSE IF c >= 97 /\ c <= 102 THEN c - 87
    ELSE IF c >= 65 /\ c <= 70 THEN c - 55
    ELSE -1

SprintfHex(b) ==
    [i \in 1..(2 * Len(b)) |->
        IF i % 2 = 1 THEN HexChar(b[(i + 1) \div 2] \div 16)
        ELSE HexChar(b[i \div 2] % 16)]

\* The scan reads pairs of hex digits up to the first byte that is no hex
\* digit; a lone digit before a non-digit or the end is an error, and so is
\* an input with no hex data.
RECURSIVE ScanHexBytes(_)
ScanHexBytes(s) ==
    IF s = <<>> \/ HexDigit(s[1]) < 0 THEN [err |-> "nil", bytes |-> <<>>]
    ELSE IF Len(s) < 2 \/ HexDigit(s[2]) < 0
         THEN [err |-> "illegal hex digit", bytes |-> <<>>]
    ELSE LET rest == ScanHexBytes(SubSeq(s, 3, Len(s)))
         IN  IF rest.err # "nil" THEN rest
             ELSE [err |-> "nil",
                   bytes |-> <<HexDigit(s[1]) * 16 + HexDigit(s[2])>> \o rest.bytes]

SscanfHex(s) ==
    LET r == ScanHexBytes(s)
    IN  IF r.err # "nil" THEN r
        ELSE IF r.bytes = <<>> THEN [err |-> "no hex data", bytes |-> <<>>]
        ELSE r

---------------------------------------------------------------------------
(* base64.StdEncoding *)

B64Char(n) ==
    IF n < 26 THEN 65 + n
    ELSE IF n < 52 THEN 97 + (n - 26)
    ELSE IF n < 62 THEN 48 + (n - 52)
    ELSE IF n = 62 THEN 43
    ELSE 47

\* -1 for a byte outside the alphabet
B64Val(c) ==
    IF c >= 65 /\ c <= 90 THEN c - 65
    ELSE IF c >= 97 /\ c <= 122 THEN c - 97 + 26
    ELSE IF c >= 48 /\ c <= 57 THEN c - 48 + 52
    ELSE IF c = 43 THEN 62
    ELSE IF c = 47 THEN 63
    ELSE -1

B64Pad == 61

ByteAt(b, i) == IF i <= Len(b) THEN b[i] ELSE 0

EncodeToString(b) ==
    [i \in 1..(4 * ((Len(b) + 2) \div 3)) |->
        LET g == (i - 1) \div 4
            j == (i - 1) % 4
            b1 == ByteAt(b, 3 * g + 1)
            b2 == ByteAt(b, 3 * g + 2)
            b3 == ByteAt(b, 3 * g + 3)
        IN  CASE j = 0 -> B64Char(b1 \div 4)
              [] j = 1 -> B64Char((b1 % 4) * 16 + b2 \div 16)
              [] j = 2 -> IF 3 * g + 2 > Len(b) THEN B64Pad
                          ELSE B64Char((b2 % 16) * 4 + b3 \div 64)
              [] j = 3 -> IF 3 * g + 3 > Len(b) THEN B64Pad
                          ELSE B64Char(b3 % 64)]

\* Number of padding bytes at the end of s (0, 1 or 2)
NumPad(s) ==
    IF Len(s) >= 1 /\ s[Len(s)] = B64Pad
    THEN (IF Len(s) >= 2 /\ s[Len(s) - 1] = B64Pad THEN 2 ELSE 1)
    ELSE 0

DecodeString(s) ==
    LET n == Len(s)
        pad == NumPad(s)
        wellFormed ==
            /\ n % 4 = 0
            /\ \A i \in 1..(n - pad) : B64Val(s[i]) >= 0
        outLen == 3 * (n \div 4) - pad
    IN  IF ~wellFormed THEN [err |-> "illegal base64 data", bytes |-> <<>>]
        ELSE [err |-> "nil",
              bytes |->
                [i \in 1..outLen |->
                    LET g == (i - 1) \div 3
                        j == (i - 1) % 3
                        v(q) == IF 4 * g + q <= n - pad THEN B64Val(s[4 * g + q]) ELSE 0
                    IN  CASE j = 0 -> v(1) * 4 + v(2) \div 16
                          [] j = 1 -> (v(2) % 16) * 16 + v(3) \div 4
                          [] j = 2 -> (v(3) % 4) * 64 + v(4)]]

---------------------------------------------------------------------------
(* cipher.AEAD for AES-GCM: the library behind c.GCM *)

KeyStreamByte(key, nonce, i) ==
    (key[((i - 1) % Len(key)) + 1] + nonce[((i - 1) % Len(nonce)) + 1] + i) % 256

GCMTag(key, nonce, ct) ==
    LET h == (SumBytes(key) + SumBytes(ct) + Len(ct)) % 256
    IN  [j \in 1..TagSize |->
            (key[((j - 1) % Len(key)) + 1] + 3 * nonce[((j - 1) % Len(nonce)) + 1]
                + j * h) % 256]

\* c.GCM.Seal(nonce, nonce, plaintext, nil): appends ciphertext and tag to nonce
GCMSeal(key, nonce, plaintext) ==
    LET ct == [i \in 1..Len(plaintext) |->
                  (plaintext[i] + KeyStreamByte(key, nonce, i)) % 256]
    IN  nonce \o ct \o GCMTag(key, nonce, ct)

\* c.GCM.Open(nil, nonce, ciphertext, nil)
GCMOpen(key, nonce, ciphertext) ==
    IF Len(ciphertext) < TagSize
    THEN [err |-> "message authentication failed", text |-> <<>>]
    ELSE LET n == Len(ciphertext) - TagSize
             ct == SubSeq(ciphertext, 1, n)
             tag == SubSeq(ciphertext, n + 1, Len(ciphertext))
         IN  IF tag # GCMTag(key, nonce, ct)
             THEN [err |-> "message authentication failed", text |-> <<>>]
             ELSE [err |-> "nil",
                   text |-> [i \in 1..n |->
                               (ct[i] + 256 - KeyStreamByte(key, nonce, i)) % 256]]

\* aes.NewCipher accepts keys of 16, 24 or 32 bytes
NewCipherOk(key) == Len(key) \in {16, 24, 32}

---------------------------------------------------------------------------
(* Config.Encrypt and Config.Decrypt *)

\* Fault injection for C15: the nonce buffer is never filled, so every seal
\* uses the all-zero nonce.
EncryptZeroNonce(key, value, nonce) ==
    GCMSeal(key, [i \in 1..NonceSize |-> 0], value)

\* Fault injection for C16: Seal(nil, nonce, ...) instead of Seal(nonce,
\* nonce, ...), so the nonce is not put in front of the ciphertext.
EncryptNoPrefix(key, value, nonce) ==
    SubSeq(GCMSeal(key, nonce, value), NonceSize + 1,
           NonceSize + Len(value) + TagSize)

\* nonce is what io.ReadFull(rand.Reader, nonce) delivered
Encrypt(key, value, nonce) == GCMSeal(key, nonce, value)

Decrypt(key, data) ==
    IF Len(data) < NonceSize THEN [err |-> "ciphertext too short", text |-> <<>>]
    ELSE LET r == GCMOpen(key, SubSeq(data, 1, NonceSize),
                          SubSeq(data, NonceSize + 1, Len(data)))
         IN  IF r.err # "nil" THEN [err |-> "failed to decrypt", text |-> <<>>]
             ELSE r

---------------------------------------------------------------------------
(* The container: Config.writeSecretsFile and Config.loadDB *)

\* A table (Go map[string]string) is a function from byte strings to byte strings.
EmptyDB == [k \in {} |-> <<>>]

MapSet(db, k, v) == (k :> v) @@ db

MapDelete(db, k) == [x \in (DOMAIN db) \ {k} |-> db[x]]

\* Fault injection for C6: a count that leaves the reserved record out.
NumEntriesSansKey(db) == Cardinality(DOMAIN db) - 1

\* numEntries := uint32(len(c.DB))
NumEntries(db) == Cardinality(DOMAIN db)

\* Fault injection for C12: an entry whose value length field repeats the
\* length of the key.
EntryBytesKeyLenTwice(key, value) ==
    PutUint32(Len(key)) \o key \o PutUint32(Len(key)) \o value

\* One serialized entry: keyLen, key, valueLen, value
EntryBytes(key, value) ==
    PutUint32(Len(key)) \o key \o PutUint32(Len(value)) \o value

\* Fault injection for C9: an entry loop that stops one entry early when the
\* table holds more than one, so that the file holds part of the table.
EncodeDBPartial(db, order) ==
    LET n == IF Len(order) > 1 THEN Len(order) - 1 ELSE Len(order)
    IN  MagicHeader \o PutUint32(Version) \o PutUint32(n)
            \o Concat([i \in 1..n |-> EntryBytes(order[i], db[order[i]])])

\* The buffer writeSecretsFile builds; order is the order `range c.DB` yields.
EncodeDB(db, order) ==
    MagicHeader \o PutUint32(Version) \o PutUint32(NumEntries(db))
        \o Concat([i \in 1..Len(order) |-> EntryBytes(order[i], db[order[i]])])

\* Fault injection for C11: an entry loop that stops at the end of the data
\* and keeps the entries read so far.
RECURSIVE ReadEntriesLenient(_, _, _, _)
ReadEntriesLenient(data, offset, i, db) ==
    IF i = 0 \/ Len(data) < offset + 4 THEN [err |-> "nil", DB |-> db]
    ELSE LET keyLen == Uint32(SubSeq(data, offset + 1, offset + 4))
             o2 == offset + 4 + keyLen
         IN  IF Len(data) < o2 + 4 THEN [err |-> "nil", DB |-> db]
             ELSE LET valueLen == Uint32(SubSeq(data, o2 + 1, o2 + 4))
                      o3 == o2 + 4 + valueLen
                  IN  IF Len(data) < o3 THEN [err |-> "nil", DB |-> db]
                      ELSE ReadEntriesLenient(data, o3, i - 1,
                               MapSet(db, SubSeq(data, offset + 5, offset + 4 + keyLen),
                                      SubSeq(data, o2 + 5, o3)))

\* The entry loop of loadDB: i entries are still to be read from offset
\* (0-based, as in the code); db is the table built so far.
RECURSIVE ReadEntries(_, _, _, _)
ReadEntries(data, offset, i, db) ==
    IF i = 0 THEN [err |-> "nil", DB |-> db]
    ELSE IF Len(data) < offset + 4
         THEN [err |-> "file too short for key length", DB |-> db]
    ELSE LET keyLen == Uint32(SubSeq(data, offset + 1, offset + 4))
             o1 == offset + 4
         IN  IF Len(data) < o1 + keyLen
             THEN [err |-> "file too short for key data", DB |-> db]
             ELSE LET key == SubSeq(data, o1 + 1, o1 + keyLen)
                      o2 == o1 + keyLen
                  IN  IF Len(data) < o2 + 4
                      THEN [err |-> "file too short for value length", DB |-> db]
                      ELSE LET valueLen == Uint32(SubSeq(data, o2 + 1, o2 + 4))
                               o3 == o2 + 4
                           IN  IF Len(data) < o3 + valueLen
                               THEN [err |-> "file too short for value data", DB |-> db]
                               ELSE ReadEntries(data, o3 + valueLen, i - 1,
                                        MapSet(db, key,
                                               SubSeq(data, o3 + 1, o3 + valueLen)))

\* Fault injection for C13: the version is checked before the magic.
LoadDBVersionFirst(data) ==
    IF Len(data) < 8 THEN [err |-> "file too short", DB |-> EmptyDB]
    ELSE IF Uint32(SubSeq(data, 5, 8)) # Version
         THEN [err |-> "unsupported version", DB |-> EmptyDB]
    ELSE IF SubSeq(data, 1, 4) # MagicHeader
         THEN [err |-> "invalid file format", DB |-> EmptyDB]
    ELSE IF Len(data) < 12
         THEN [err |-> "file too short for entry count", DB |-> EmptyDB]
    ELSE ReadEntries(data, 12, Uint32(SubSeq(data, 9, 12)), EmptyDB)

\* loadDB on the bytes of the file
LoadDB(data) ==
    IF Len(data) < 8 THEN [err |-> "file too short", DB |-> EmptyDB]
    ELSE IF SubSeq(data, 1, 4) # MagicHeader
         THEN [err |-> "invalid file format", DB |-> EmptyDB]
    ELSE IF Uint32(SubSeq(data, 5, 8)) # Version
         THEN [err |-> "unsupported version", DB |-> EmptyDB]
    ELSE IF Len(data) < 12
         THEN [err |-> "file too short for entry count", DB |-> EmptyDB]
    ELSE ReadEntries(data, 12, Uint32(SubSeq(data, 9, 12)), EmptyDB)

---------------------------------------------------------------------------
(* State *)

\* file:   the container file at the configured path: whether it exists, its
\*         bytes and its permission bits (perm, 0 without a file); whether
\*         the directory of the path exists (dir), and the permission bits
\*         it got if writeSecretsFile created it (dirPerm, else 0).
\*         Permission bits are those passed to the call; the umask of the
\*         process can only clear some.  findDataFile returns the file name
\*         it is given (its home-directory branch is commented out), so
\*         there is one path.
\* cfg:    per store instance, the *Config the caller holds: Key and DB, and
\*         whether NewConfigWithFile returned it (open) or nil.
\* genKey: history: the key generated when the container was created.
\* puts:   history: sealed key -> who stored it under which plaintext key, for
\*         every record stored successfully and not deleted since.
\* last:   the last call and what it returned.

Insts == {1, 2}

NoKey == <<>>

NilCfg == [open |-> FALSE, Key |-> NoKey, DB |-> EmptyDB]

\* The permission bits writeSecretsFile passes: 0600 and 0755
FilePerm == 384
DirPerm == 493

\* The bits of a file somebody else created: 0644
OtherPerm == 420

\* No file yet, in a directory that exists (the default path "config")
NoFile == [exists |-> FALSE, data |-> <<>>, perm |-> 0, dir |-> TRUE, dirPerm |-> 0]

\* A file that is on disk before the first open
OnDisk(data) ==
    [exists |-> TRUE, data |-> data, perm |-> OtherPerm, dir |-> TRUE, dirPerm |-> 0]

\* os.MkdirAll(dir, 0755): creates the directory if it is not there
MkdirAll(f) ==
    [f EXCEPT !.dir = TRUE, !.dirPerm = IF f.dir THEN f.dirPerm ELSE DirPerm]

\* os.WriteFile(filename, data, 0600): the bits apply if the file is created
OsWriteFile(f, data) ==
    [f EXCEPT !.exists = TRUE, !.data = data,
              !.perm = IF f.exists THEN f.perm ELSE FilePerm]

Result(i, op, key, value, err, out) ==
    [inst |-> i, op |-> op, key |-> key, value |-> value, err |-> err, out |-> out]

\* Fault injection for C10: a write that keeps the records the file holds and
\* the table does not (read, merge, write) instead of replacing the file.
WriteSecretsFileMerge(f, db, order, wok) ==
    LET old == IF f.exists THEN LoadDB(f.data).DB ELSE EmptyDB
        merged == db @@ old
        rest == CHOOSE r \in Perms((DOMAIN merged) \ (DOMAIN db)) : TRUE
    IN  IF wok
        THEN [err |-> "nil",
              file |-> OsWriteFile(MkdirAll(f), EncodeDB(merged, order \o rest))]
        ELSE [err |-> "failed to write config file", file |-> MkdirAll(f)]

\* writeSecretsFile: the directory is made, then the file holds the buffer,
\* or os.WriteFile fails and the file is left as it was.
WriteSecretsFile(f, db, order, wok) ==
    IF wok THEN [err |-> "nil", file |-> OsWriteFile(MkdirAll(f), EncodeDB(db, order))]
    ELSE [err |-> "failed to write config file", file |-> MkdirAll(f)]

\* Fault injection for C5: an existence test that always reports a missing
\* container, so that every open generates a key.
ConfigMissingAlways(f) == TRUE

\* os.Stat(configPath) reports that the container does not exist
ConfigMissing(f) == ~f.exists

---------------------------------------------------------------------------
(* Inputs: what the callers pass and what rand.Reader delivers *)

Key1 == [i \in 1..KeySize |-> i]
Key2 == [i \in 1..KeySize |-> (7 * i + 3) % 256]
NewKeys == {Key1, Key2}

Nonce1 == [i \in 1..NonceSize |-> 0]
Nonce2 == [i \in 1..NonceSize |-> (17 * i) % 256]
Nonces == {Nonce1, Nonce2}
ValueNonces == {Nonce1}

Values == {Str_x, Str_y}

Plaintexts == {Str_empty, Str_k, Str_a, Str_b, Str_x, Str_y}

---------------------------------------------------------------------------
(* Sealing and opening of map keys and values *)

\* base64.StdEncoding.EncodeToString(c.Encrypt(text)), as Store computes it
\* for the key and for the value
SealString(key, text, nonce) == EncodeToString(Encrypt(key, text, nonce))

\* base64.StdEncoding.DecodeString followed by c.Decrypt, as the scans apply
\* them to a map key and Retrieve to a value
OpenString(key, s) ==
    LET raw == DecodeString(s)
    IN  IF raw.err # "nil" THEN [err |-> "illegal base64 data", text |-> <<>>]
        ELSE Decrypt(key, raw.bytes)

\* SealString and OpenString tabulated over the inputs of the model, so that
\* a scan looks a string up instead of computing it again (@@ makes TLC
\* build the table once).
SealCache ==
    [a \in NewKeys \X Plaintexts \X Nonces |-> SealString(a[1], a[2], a[3])] @@ <<>>

Sealed(key, text, nonce) ==
    IF <<key, text, nonce>> \in DOMAIN SealCache THEN SealCache[<<key, text, nonce>>]
    ELSE SealString(key, text, nonce)

CachedStrings == {Str_k} \cup { SealCache[a] : a \in DOMAIN SealCache }

OpenCache == [a \in NewKeys \X CachedStrings |-> OpenString(a[1], a[2])] @@ <<>>

Opened(key, s) ==
    IF <<key, s>> \in DOMAIN OpenCache THEN OpenCache[<<key, s>>]
    ELSE OpenString(key, s)

---------------------------------------------------------------------------
(* The scans of Retrieve, ListKeys and Delete over c.DB in iteration order *)

\* The plaintext key of the entry stored under map key k, as the three scans
\* compute it: "skip" for the reserved entry, for a key that is not base64,
\* and for one that does not open.
ScanKey(c, k) ==
    IF k = Str_k THEN [skip |-> TRUE, text |-> <<>>]
    ELSE LET decKey == Opened(c.Key, k)
         IN  IF decKey.err # "nil" THEN [skip |-> TRUE, text |-> <<>>]
             ELSE [skip |-> FALSE, text |-> decKey.text]

\* Fault injection for C18: a scan that returns the error of a map key that
\* does not decode or open instead of going on.
RECURSIVE RetrieveStrict(_, _, _)
RetrieveStrict(c, order, key) ==
    IF order = <<>> THEN [err |-> "key not found", text |-> <<>>]
    ELSE LET k == Head(order)
             dk == ScanKey(c, k)
         IN  IF k # Str_k /\ dk.skip THEN [err |-> "failed to decrypt", text |-> <<>>]
             ELSE IF dk.skip \/ dk.text # key THEN RetrieveStrict(c, Tail(order), key)
             ELSE Opened(c.Key, c.DB[k])

\* Retrieve: the first entry in iteration order whose key opens to key and
\* whose value is base64 decides; its value is opened and returned.
RECURSIVE RetrieveResult(_, _, _)
RetrieveResult(c, order, key) ==
    IF order = <<>> THEN [err |-> "key not found", text |-> <<>>]
    ELSE LET k == Head(order)
             dk == ScanKey(c, k)
         IN  IF dk.skip \/ dk.text # key THEN RetrieveResult(c, Tail(order), key)
             ELSE LET v == Opened(c.Key, c.DB[k])
                  IN  IF v.err = "illegal base64 data"
                      THEN RetrieveResult(c, Tail(order), key)
                      ELSE v

\* Fault injection for C8: a listing that takes a record whose plaintext key
\* is "k" for the reserved record and skips it.
RECURSIVE ListKeysSkipPlainK(_, _)
ListKeysSkipPlainK(c, order) ==
    IF order = <<>> THEN <<>>
    ELSE LET dk == ScanKey(c, Head(order))
         IN  IF dk.skip \/ dk.text = Str_k THEN ListKeysSkipPlainK(c, Tail(order))
             ELSE <<dk.text>> \o ListKeysSkipPlainK(c, Tail(order))

RECURSIVE ListKeysResult(_, _)
ListKeysResult(c, order) ==
    IF order = <<>> THEN <<>>
    ELSE LET dk == ScanKey(c, Head(order))
         IN  IF dk.skip THEN ListKeysResult(c, Tail(order))
             ELSE <<dk.text>> \o ListKeysResult(c, Tail(order))

\* The map key Delete removes: the first in iteration order that opens to key
RECURSIVE DeleteMatch(_, _, _)
DeleteMatch(c, order, key) ==
    IF order = <<>> THEN [found |-> FALSE, k |-> <<>>]
    ELSE LET dk == ScanKey(c, Head(order))
         IN  IF dk.skip \/ dk.text # key THEN DeleteMatch(c, Tail(order), key)
             ELSE [found |-> TRUE, k |-> Head(order)]

\* Every order in which a range over the table db may run
Orders(db) == Perms(DOMAIN db)

\* What the calls can return, over the orders the range may take
RetrieveOutcomes(c, key) == { RetrieveResult(c, order, key) : order \in Orders(c.DB) }

ListKeysOutcomes(c) == { ListKeysResult(c, order) : order \in Orders(c.DB) }

DeleteMatches(c, key) == { DeleteMatch(c, order, key) : order \in Orders(c.DB) }

\* The map key and the table after lines 91-103 of Store
StoreKey(c, key, keyNonce) == Sealed(c.Key, key, keyNonce)

StoreTable(c, key, value, keyNonce, valueNonce) ==
    MapSet(c.DB, StoreKey(c, key, keyNonce), Sealed(c.Key, value, valueNonce))

---------------------------------------------------------------------------
(* Operations *)

\* NewConfigWithFile: newKey is the 32 bytes rand.Reader delivers if a key is
\* generated, wok whether the write of the new container succeeds.
NewConfigWithFile(i, newKey, wok) ==
    LET fresh == ConfigMissing(file)
        db0 == IF fresh THEN MapSet(EmptyDB, Str_k, SprintfHex(newKey)) ELSE EmptyDB
        w == IF fresh THEN WriteSecretsFile(file, db0, <<Str_k>>, wok)
             ELSE [err |-> "nil", file |-> file]
        ld == LoadDB(w.file.data)
        hasKey == Str_k \in DOMAIN ld.DB
        parsed == SscanfHex(ld.DB[Str_k])
        err == IF w.err # "nil" THEN w.err
               ELSE IF ld.err # "nil" THEN ld.err
               ELSE IF ~hasKey THEN "key not found in database"
               ELSE IF parsed.err # "nil" THEN "failed to parse key"
               ELSE IF ~NewCipherOk(parsed.bytes) THEN "failed to create cipher"
               ELSE "nil"
    IN  /\ file' = w.file
        /\ cfg' = [cfg EXCEPT ![i] =
                      IF err = "nil"
                      THEN [open |-> TRUE, Key |-> parsed.bytes, DB |-> ld.DB]
                      ELSE NilCfg]
        /\ genKey' = IF fresh /\ w.err = "nil" /\ genKey = NoKey THEN newKey ELSE genKey
        /\ last' = Result(i, "NewConfigWithFile", <<>>, <<>>, err, <<>>)
        /\ UNCHANGED puts

\* Store(key, value): order is the order in which writeSecretsFile ranges
\* over c.DB
Store(i, key, value, keyNonce, valueNonce, wok) ==
    /\ cfg[i].open
    /\ LET db == StoreTable(cfg[i], key, value, keyNonce, valueNonce)
       IN  /\ \E order \in Orders(db) :
                LET w == WriteSecretsFile(file, db, order, wok)
                IN  /\ cfg' = [cfg EXCEPT ![i].DB = db]
                    /\ file' = w.file
                    /\ puts' = IF w.err = "nil"
                               THEN MapSet(puts, StoreKey(cfg[i], key, keyNonce),
                                           [inst |-> i, key |-> key])
                               ELSE puts
                    /\ last' = Result(i, "Store", key, value, w.err, <<>>)
                    /\ UNCHANGED genKey

\* Retrieve(key), for some order of the range over c.DB
Retrieve(i, key) ==
    /\ cfg[i].open
    /\ \E r \in RetrieveOutcomes(cfg[i], key) :
         last' = Result(i, "Retrieve", key, <<>>, r.err, <<r.text>>)
    /\ UNCHANGED <<file, cfg, genKey, puts>>

\* ListKeys(), for some order of the range over c.DB
ListKeys(i) ==
    /\ cfg[i].open
    /\ \E keys \in ListKeysOutcomes(cfg[i]) :
         last' = Result(i, "ListKeys", <<>>, <<>>, "nil", keys)
    /\ UNCHANGED <<file, cfg, genKey, puts>>

\* Fault injection for C19: a Delete that calls writeSecretsFile after the
\* scan also when no entry matched.
DeleteAlwaysWrites(i, key, wok) ==
    /\ cfg[i].open
    /\ \E m \in DeleteMatches(cfg[i], key) :
         LET db == IF m.found THEN MapDelete(cfg[i].DB, m.k) ELSE cfg[i].DB
         IN  \E worder \in Orders(db) :
               LET w == WriteSecretsFile(file, db, worder, wok)
               IN  /\ cfg' = [cfg EXCEPT ![i].DB = db]
                   /\ file' = w.file
                   /\ puts' = IF m.found /\ w.err = "nil" THEN MapDelete(puts, m.k) ELSE puts
                   /\ last' = Result(i, "Delete", key, <<>>,
                                     IF m.found THEN w.err ELSE "key not found", <<>>)
                   /\ UNCHANGED genKey

\* Delete(key), for some order of the scan and, when an entry matched, some
\* order of writeSecretsFile
Delete(i, key, wok) ==
    /\ cfg[i].open
    /\ \E m \in DeleteMatches(cfg[i], key) :
         IF m.found
         THEN LET db == MapDelete(cfg[i].DB, m.k)
              IN  \E worder \in Orders(db) :
                    LET w == WriteSecretsFile(file, db, worder, wok)
                    IN  /\ cfg' = [cfg EXCEPT ![i].DB = db]
                        /\ file' = w.file
                        /\ puts' = IF w.err = "nil" THEN MapDelete(puts, m.k) ELSE puts
                        /\ last' = Result(i, "Delete", key, <<>>, w.err, <<>>)
                        /\ UNCHANGED genKey
         ELSE /\ last' = Result(i, "Delete", key, <<>>, "key not found", <<>>)
              /\ UNCHANGED <<file, cfg, genKey, puts>>

---------------------------------------------------------------------------
(* Specifications *)

Init ==
    /\ file = NoFile
    /\ cfg = [i \in Insts |-> NilCfg]
    /\ genKey = NoKey
    /\ puts = EmptyDB
    /\ last = Result(0, "none", <<>>, <<>>, "nil", <<>>)

\* The bound of the model on Store: the table holds at most max records
\* beside the reserved one after the call.
StoreBound(i, key, keyNonce, max) ==
    /\ cfg[i].open
    /\ Cardinality(DOMAIN cfg[i].DB \cup {StoreKey(cfg[i], key, keyNonce)}) <= max + 1

\* The calls of the instances insts with the given inputs, every write
\* succeeding.
NextOn(insts, newKeys, keys, values, nonces, max) ==
    \E i \in insts :
        \/ \E newKey \in newKeys : NewConfigWithFile(i, newKey, TRUE)
        \/ \E key \in keys, value \in values, kn \in nonces, vn \in ValueNonces :
              /\ StoreBound(i, key, kn, max)
              /\ Store(i, key, value, kn, vn, TRUE)
        \/ \E key \in keys : Retrieve(i, key)
        \/ ListKeys(i)
        \/ \E key \in keys : Delete(i, key, TRUE)

\* One store instance; keys "" and "k", two values, two nonces.
Next == NextOn({1}, {Key1}, {Str_empty, Str_k}, Values, Nonces, MaxEntries)

Spec == Init /\ [][Next]_vars

\* One store instance with either key generated at the first open; keys "k"
\* and "a", one value, two nonces.
NextKey == NextOn({1}, NewKeys, {Str_k, Str_a}, {Str_x}, Nonces, MaxEntries)

SpecKey == Init /\ [][NextKey]_vars

\* A store on which Delete is never called; three distinct keys, one of them
\* the literal "k", each sealed with one nonce, so the table holds at most
\* three records beside the reserved one.
ListedKeys == {Str_k, Str_a, Str_b}

NextList ==
    \/ \E newKey \in {Key1} : NewConfigWithFile(1, newKey, TRUE)
    \/ \E key \in ListedKeys, value \in Values :
          Store(1, key, value, Nonce1, Nonce1, TRUE)
    \/ \E key \in ListedKeys : Retrieve(1, key)
    \/ ListKeys(1)

SpecList == Init /\ [][NextList]_vars

\* Two store instances on the same container.
NextTwo == NextOn(Insts, {Key1}, {Str_a, Str_b}, {Str_x}, {Nonce1}, MaxEntries)

SpecTwo == Init /\ [][NextTwo]_vars

\* A container that is on disk before the first open and was not written by
\* writeSecretsFile of this run: the reserved record of Key1 and one record
\* whose key is "a" sealed under Key1 and whose value is a sealed "x", a
\* string that is not base64, a value sealed under another key, or base64
\* of fewer bytes than a nonce.
NotBase64 == <<33, 33, 33, 33>>
ShortBase64 == <<65, 65, 65, 65>>

ExternalValues ==
    { Sealed(Key1, Str_x, Nonce1), NotBase64, Sealed(Key2, Str_x, Nonce1), ShortBase64 }

ExternalFiles ==
    { OnDisk(EncodeDB(MapSet(MapSet(EmptyDB, Str_k, SprintfHex(Key1)),
                             Sealed(Key1, Str_a, Nonce1), v),
                      <<Str_k, Sealed(Key1, Str_a, Nonce1)>>))
      : v \in ExternalValues }

InitExt ==
    /\ file \in ExternalFiles
    /\ cfg = [i \in Insts |-> NilCfg]
    /\ genKey = NoKey
    /\ puts = EmptyDB
    /\ last = Result(0, "none", <<>>, <<>>, "nil", <<>>)

NextExt == NextOn({1}, {Key1}, {Str_k, Str_a}, {Str_x}, Nonces, MaxEntries)

SpecExt == InitExt /\ [][NextExt]_vars

---------------------------------------------------------------------------
(* Properties *)

Range(s) == { s[j] : j \in 1..Len(s) }

\* The table loadDB reads from the file as it is now
FileTable == LoadDB(file.data)

\* The map keys of c's table whose plaintext key is key
Matching(c, key) ==
    { k \in DOMAIN c.DB : ~ScanKey(c, k).skip /\ ScanKey(c, k).text = key }

\* The last call was a Store or Delete that returned nil
Mutated == last.op \in {"Store", "Delete"} /\ last.err = "nil"

\* C1: after Store(key, value) returned nil for a non-empty key and value,
\* Retrieve(key) returns value and nothing else, whatever was stored under
\* key before.
C1_RetrieveAfterStore ==
    (last.op = "Store" /\ last.err = "nil" /\ last.key # <<>> /\ last.value # <<>>)
        => RetrieveOutcomes(cfg[last.inst], last.key)
               = { [err |-> "nil", text |-> last.value] }

\* C2: after Delete(key) returned nil for a non-empty key, Retrieve(key)
\* reports "key not found" and ListKeys() does not contain key, however often
\* key was stored before.
C2_DeleteRemovesKey ==
    (last.op = "Delete" /\ last.err = "nil" /\ last.key # <<>>)
        => /\ \A r \in RetrieveOutcomes(cfg[last.inst], last.key) :
                 r.err = "key not found"
           /\ \A keys \in ListKeysOutcomes(cfg[last.inst]) : last.key \notin Range(keys)

\* C3: Store with the empty key returns an error and leaves no record whose
\* key is empty, in the table or in the file.
C3_EmptyKeyRejected ==
    (last.op = "Store" /\ last.key = Str_empty)
        => /\ last.err # "nil"
           /\ Matching(cfg[last.inst], Str_empty) = {}
           /\ Matching([cfg[last.inst] EXCEPT !.DB = FileTable.DB], Str_empty) = {}

\* C4: the value of the reserved record in the file is not a plain encoding
\* of the master key: scanning it as hex does not give the key.
C4_KeyNotPlainInFile ==
    (file.exists /\ genKey # NoKey /\ FileTable.err = "nil" /\ Str_k \in DOMAIN FileTable.DB)
        => SscanfHex(FileTable.DB[Str_k]) # [err |-> "nil", bytes |-> genKey]

\* C5: across Store, Delete and opening again, also of the plaintext key "k",
\* every open succeeds with the key generated when the container was created,
\* and the reserved record in the table and in the file stays the hex of
\* that key.
C5_MasterKeyStable ==
    /\ (last.op = "NewConfigWithFile" => last.err = "nil" /\ cfg[last.inst].open)
    /\ \A i \in Insts :
          cfg[i].open =>
              /\ genKey \in NewKeys
              /\ cfg[i].Key = genKey
              /\ Str_k \in DOMAIN cfg[i].DB
              /\ cfg[i].DB[Str_k] = SprintfHex(genKey)
    /\ file.exists =>
          /\ FileTable.err = "nil"
          /\ Str_k \in DOMAIN FileTable.DB
          /\ FileTable.DB[Str_k] = SprintfHex(genKey)

\* C5 happens: the store is opened again while it holds a record stored
\* under the plaintext key "k".
C5_Witness ==
    /\ last.op = "NewConfigWithFile"
    /\ cfg[1].open
    /\ \E e \in DOMAIN puts : puts[e].key = Str_k /\ e \in DOMAIN cfg[1].DB

\* The records serialized after the 12-byte header, read to the end of the
\* data without looking at the count of the header.
RECURSIVE Records(_, _)
Records(data, offset) ==
    IF offset = Len(data) THEN [ok |-> TRUE, recs |-> <<>>]
    ELSE IF Len(data) < offset + 4 THEN [ok |-> FALSE, recs |-> <<>>]
    ELSE LET keyLen == Uint32(SubSeq(data, offset + 1, offset + 4))
             o2 == offset + 4 + keyLen
         IN  IF Len(data) < o2 + 4 THEN [ok |-> FALSE, recs |-> <<>>]
             ELSE LET valueLen == Uint32(SubSeq(data, o2 + 1, o2 + 4))
                      o3 == o2 + 4 + valueLen
                  IN  IF Len(data) < o3 THEN [ok |-> FALSE, recs |-> <<>>]
                      ELSE LET rest == Records(data, o3)
                           IN  [ok |-> rest.ok,
                                recs |-> << <<SubSeq(data, offset + 5, offset + 4 + keyLen),
                                              SubSeq(data, o2 + 5, o3)>> >> \o rest.recs]

HeaderCount == Uint32(SubSeq(file.data, 9, 12))

\* C6: a file written by an open, a Store or a Delete holds the magic, the
\* version, a count equal to the number of records serialized after it, and
\* exactly one record whose key is the reserved "k".
C6_ContainerInvariant ==
    file.exists =>
        /\ Len(file.data) >= 12
        /\ SubSeq(file.data, 1, 4) = MagicHeader
        /\ Uint32(SubSeq(file.data, 5, 8)) = Version
        /\ LET r == Records(file.data, 12)
           IN  /\ r.ok
               /\ HeaderCount = Len(r.recs)
               /\ Cardinality({ j \in 1..Len(r.recs) : r.recs[j][1] = Str_k }) = 1

\* C6 happens: a Delete has rewritten a file that holds two records.
C6_Witness ==
    /\ last.op = "Delete" /\ last.err = "nil"
    /\ file.exists /\ HeaderCount = 2

\* C9: after a Store or Delete that returned nil, the file decodes to the
\* table the instance holds in memory.
C9_FileIsTable ==
    Mutated => FileTable = [err |-> "nil", DB |-> cfg[last.inst].DB]

\* C9 happens: a Store has written a table of three records.
C9_Witness ==
    /\ last.op = "Store" /\ last.err = "nil"
    /\ Cardinality(DOMAIN cfg[last.inst].DB) = 3
    /\ FileTable.DB = cfg[last.inst].DB

\* The plaintext keys stored so far
PutKeys == { puts[e].key : e \in DOMAIN puts }

\* C8: on a store without deletions, whatever ListKeys returns contains every
\* key stored so far and nothing else: one item per record stored, none for
\* the reserved record.
C8_ListComplete ==
    /\ last.op = "ListKeys" =>
          /\ Range(last.out) = PutKeys
          /\ Len(last.out) = Cardinality(DOMAIN puts)
    /\ cfg[1].open =>
          \A keys \in ListKeysOutcomes(cfg[1]) :
              /\ Range(keys) = PutKeys
              /\ Len(keys) = Cardinality(DOMAIN cfg[1].DB) - 1

\* C8 happens: ListKeys has returned after three distinct keys were stored.
C8_Witness ==
    /\ last.op = "ListKeys"
    /\ PutKeys = ListedKeys
    /\ Len(last.out) = 3

\* C10: after a Store or Delete of one instance returned nil, a record that
\* was stored by either instance and not deleted since is in the file exactly
\* if it is in the table of the instance that wrote.
C10_FileIsWritersTable ==
    Mutated => \A e \in DOMAIN puts :
                   e \in DOMAIN FileTable.DB <=> e \in DOMAIN cfg[last.inst].DB

\* C10 happens: both instances are open, and after a successful Store or
\* Delete of one of them a record the other stored, and nobody deleted, is
\* no longer in the file.
C10_LostUpdate ==
    /\ Mutated
    /\ \A i \in Insts : cfg[i].open
    /\ \E e \in DOMAIN puts :
          /\ puts[e].inst # last.inst
          /\ e \in DOMAIN cfg[puts[e].inst].DB
          /\ e \notin DOMAIN FileTable.DB

\* C7: Retrieve(key) returns "key not found" only if no record of the table
\* has a key that opens to key.
C7_NotFoundMeansNoMatch ==
    (last.op = "Retrieve" /\ last.err = "key not found")
        => Matching(cfg[last.inst], last.key) = {}

---------------------------------------------------------------------------
(* writeSecretsFile and loadDB alone *)

\* Instance 1 is a Config whose table a caller has filled (DB is an exported
\* field); it writes the file.  The file may then lose its end (a partial
\* write or copy), and instance 2 reads it with loadDB.
CodecKeys == {Str_empty, Str_k, <<0, 255>>}
CodecValues == {Str_empty, <<120, 0>>}

Tables == UNION { [ks -> CodecValues] : ks \in SUBSET CodecKeys }

InitCodec ==
    /\ file = NoFile
    /\ \E t \in Tables :
          cfg = [i \in Insts |-> IF i = 1 THEN [NilCfg EXCEPT !.DB = t] ELSE NilCfg]
    /\ genKey = NoKey
    /\ puts = EmptyDB
    /\ last = Result(0, "none", <<>>, <<>>, "nil", <<>>)

\* c.writeSecretsFile() of instance i, ranging over c.DB in the given order
WriteFile(i, order) ==
    LET w == WriteSecretsFile(file, cfg[i].DB, order, TRUE)
    IN  /\ file' = w.file
        /\ last' = Result(i, "writeSecretsFile", <<>>, <<>>, w.err, <<>>)
        /\ UNCHANGED <<cfg, genKey, puts>>

\* The file is cut to its first n bytes
Truncate(n) ==
    /\ file.exists
    /\ n < Len(file.data)
    /\ file' = [file EXCEPT !.data = SubSeq(file.data, 1, n)]
    /\ last' = Result(0, "truncate", <<>>, <<>>, "nil", <<>>)
    /\ UNCHANGED <<cfg, genKey, puts>>

\* c.loadDB() of instance i
Load(i) ==
    /\ file.exists
    /\ LET ld == LoadDB(file.data)
       IN  /\ cfg' = [cfg EXCEPT ![i].DB = ld.DB]
           /\ last' = Result(i, "loadDB", <<>>, <<>>, ld.err, <<>>)
    /\ UNCHANGED <<file, genKey, puts>>

MaxFileLen == 12 + 3 * (8 + 2 + 2)

NextCodec ==
    \/ \E order \in Orders(cfg[1].DB) : WriteFile(1, order)
    \/ \E n \in 0..MaxFileLen : Truncate(n)
    \/ Load(2)

SpecCodec == InitCodec /\ [][NextCodec]_vars

\* The file is what instance 1 writes for some order of its table
IsEncoding == \E order \in Orders(cfg[1].DB) : file.data = EncodeDB(cfg[1].DB, order)

\* The file is a strict prefix of what instance 1 writes for some order
IsStrictPrefix ==
    \E order \in Orders(cfg[1].DB) :
        LET e == EncodeDB(cfg[1].DB, order)
        IN  Len(file.data) < Len(e) /\ file.data = SubSeq(e, 1, Len(file.data))

TooShortErrors ==
    { "file too short", "file too short for entry count",
      "file too short for key length", "file too short for key data",
      "file too short for value length", "file too short for value data" }

\* C11: loadDB of a strict prefix (length 0 to len-1) of a written file
\* returns one of the "file too short" errors; it never returns nil.
C11_PrefixFails ==
    (file.exists /\ last.op = "loadDB" /\ IsStrictPrefix) => last.err \in TooShortErrors

\* C11 happens: loadDB has read a prefix that ends inside the entries of a
\* table of two entries or more.
C11_Witness ==
    /\ file.exists /\ last.op = "loadDB" /\ IsStrictPrefix
    /\ Len(file.data) > 12
    /\ Cardinality(DOMAIN cfg[1].DB) >= 2
    /\ cfg[2].DB # EmptyDB

\* C12: loadDB of a file written from a table returns nil and the same
\* table, whatever order the entries were written in.
C12_RoundTrip ==
    (file.exists /\ last.op = "loadDB" /\ IsEncoding)
        => last.err = "nil" /\ cfg[2].DB = cfg[1].DB

\* C12 happens: loadDB has read back a table of three entries, and the empty
\* key and the empty value are among them.
C12_Witness ==
    /\ file.exists /\ last.op = "loadDB" /\ IsEncoding
    /\ DOMAIN cfg[2].DB = CodecKeys
    /\ cfg[2].DB[Str_k] = Str_empty

---------------------------------------------------------------------------
(* Opening a file that is already there *)

\* Files on disk before the first open: too short, with another magic, with
\* another version, with both, without the reserved record, and with a
\* reserved record that is the hex of 32, 24, 16 or 8 bytes, or no hex.
BadMagic == <<88, 67, 70, 71>>

Header(magic, version, count) == magic \o PutUint32(version) \o PutUint32(count)

KeyFile(keyStr) ==
    EncodeDB(MapSet(EmptyDB, Str_k, keyStr), <<Str_k>>)

KeyBytes(n) == [i \in 1..n |-> (11 * i) % 256]

OpenFileData ==
    { <<>>, SubSeq(MagicHeader, 1, 3), SubSeq(Header(MagicHeader, Version, 0), 1, 7),
      SubSeq(Header(BadMagic, Version + 1, 0), 1, 7),
      Header(BadMagic, Version, 0), Header(MagicHeader, Version + 1, 0),
      Header(MagicHeader, 0, 0), Header(BadMagic, Version + 1, 0),
      SubSeq(Header(MagicHeader, Version, 0), 1, 8),
      Header(MagicHeader, Version, 0),
      KeyFile(SprintfHex(Key1)), KeyFile(SprintfHex(KeyBytes(24))),
      KeyFile(SprintfHex(KeyBytes(16))), KeyFile(SprintfHex(KeyBytes(8))),
      KeyFile(<<122, 122>>), KeyFile(Str_empty) }

InitOpen ==
    /\ file \in { OnDisk(d) : d \in OpenFileData }
    /\ cfg = [i \in Insts |-> NilCfg]
    /\ genKey = NoKey
    /\ puts = EmptyDB
    /\ last = Result(0, "none", <<>>, <<>>, "nil", <<>>)

NextOpen == NextOn({1}, {Key1}, {Str_a, Str_b}, {Str_x}, {Nonce1}, MaxEntries)

SpecOpen == InitOpen /\ [][NextOpen]_vars

\* C13: opening a file shorter than 8 bytes, a file whose first 4 bytes are
\* not "SCFG", or one whose version is not 1 returns "file too short",
\* "invalid file format" or "unsupported version" and no Config; a file with
\* both a wrong magic and a wrong version gets "invalid file format".
C13_OpenFailsClosed ==
    (last.op = "NewConfigWithFile" /\ file.exists) =>
        /\ Len(file.data) < 8 =>
              last.err = "file too short" /\ cfg[last.inst] = NilCfg
        /\ (Len(file.data) >= 8 /\ SubSeq(file.data, 1, 4) # MagicHeader) =>
              last.err = "invalid file format" /\ cfg[last.inst] = NilCfg
        /\ (Len(file.data) >= 8 /\ SubSeq(file.data, 1, 4) = MagicHeader
               /\ Uint32(SubSeq(file.data, 5, 8)) # Version) =>
              last.err = "unsupported version" /\ cfg[last.inst] = NilCfg

\* C13 happens: a file with a wrong magic and a wrong version was opened.
C13_Witness ==
    /\ last.op = "NewConfigWithFile"
    /\ file.data = Header(BadMagic, Version + 1, 0)
    /\ last.err = "invalid file format"

\* C14: an open of an existing file that returns nil has found the reserved
\* record and a key of exactly 32 bytes in it.
C14_KeyIs32Bytes ==
    (last.op = "NewConfigWithFile" /\ last.err = "nil") =>
        /\ Str_k \in DOMAIN cfg[last.inst].DB
        /\ Len(cfg[last.inst].Key) = KeySize

---------------------------------------------------------------------------
(* Encrypt and Decrypt called by the caller *)

\* c.Encrypt(value) of instance i; nonce is what rand.Reader delivers
EncryptCall(i, value, nonce) ==
    /\ cfg[i].open
    /\ last' = Result(i, "Encrypt", <<>>, value, "nil",
                      <<Encrypt(cfg[i].Key, value, nonce)>>)
    /\ UNCHANGED <<file, cfg, genKey, puts>>

\* c.Decrypt(data) of instance i
DecryptCall(i, data) ==
    /\ cfg[i].open
    /\ LET r == Decrypt(cfg[i].Key, data)
       IN  last' = Result(i, "Decrypt", <<>>, data, r.err, <<r.text>>)
    /\ UNCHANGED <<file, cfg, genKey, puts>>

\* What the caller passes to Decrypt after an Encrypt: the bytes Encrypt
\* returned, a prefix of them, or the bytes with the last one changed.
DecryptInputs ==
    IF last.op # "Encrypt" THEN {}
    ELSE LET ct == last.out[1]
         IN  {ct} \cup { SubSeq(ct, 1, n) : n \in 0..(Len(ct) - 1) }
                  \cup { [ct EXCEPT ![Len(ct)] = (@ + 1) % 256] }

NextCrypt ==
    \/ \E newKey \in NewKeys : NewConfigWithFile(1, newKey, TRUE)
    \/ \E value \in Plaintexts, nonce \in Nonces : EncryptCall(1, value, nonce)
    \/ \E data \in DecryptInputs : DecryptCall(1, data)

SpecCrypt == Init /\ [][NextCrypt]_vars

\* C16: Decrypt of what Encrypt returned for a plaintext, the empty one
\* included, returns nil and the plaintext; Decrypt of fewer bytes than a
\* nonce returns "ciphertext too short".
C16_SealOpenRoundTrip ==
    last.op = "Decrypt" =>
        /\ \A p \in Plaintexts, n \in Nonces :
              last.value = Encrypt(cfg[last.inst].Key, p, n)
                  => last.err = "nil" /\ last.out = <<p>>
        /\ Len(last.value) < NonceSize => last.err = "ciphertext too short"

\* C16 happens: Decrypt has returned the empty plaintext sealed under the
\* second nonce.
C16_Witness ==
    /\ last.op = "Decrypt"
    /\ last.value = Encrypt(cfg[1].Key, Str_empty, Nonce2)
    /\ last.err = "nil" /\ last.out = <<Str_empty>>

\* One store instance whose seals draw the nonce of the key and the nonce
\* of the value separately; key "a", values "a" and "x".
NextSeal ==
    \/ \E newKey \in {Key1} : NewConfigWithFile(1, newKey, TRUE)
    \/ \E value \in {Str_a, Str_x}, kn \in Nonces, vn \in Nonces :
          /\ StoreBound(1, Str_a, kn, MaxEntries)
          /\ Store(1, Str_a, value, kn, vn, TRUE)
    \/ Retrieve(1, Str_a)
    \/ ListKeys(1)
    \/ Delete(1, Str_a, TRUE)
    \/ \E value \in {Str_a, Str_x}, nonce \in Nonces : EncryptCall(1, value, nonce)

SpecSeal == Init /\ [][NextSeal]_vars

\* The seal outputs the table of instance 1 holds: the map key and the value
\* of every record but the reserved one
SealsHeld ==
    { <<"key", k>> : k \in (DOMAIN cfg[1].DB) \ {Str_k} }
        \cup { <<"value", k>> : k \in (DOMAIN cfg[1].DB) \ {Str_k} }

SealOf(o) == IF o[1] = "key" THEN o[2] ELSE cfg[1].DB[o[2]]

\* The nonce in front of a seal output given as base64
NonceOf(s) == SubSeq(DecodeString(s).bytes, 1, NonceSize)

---------------------------------------------------------------------------
(* A path whose directory may be missing *)

\* NewConfigWithFile("dir/config"): the directory is there or not
InitPath ==
    /\ file \in { NoFile, [NoFile EXCEPT !.dir = FALSE] }
    /\ cfg = [i \in Insts |-> NilCfg]
    /\ genKey = NoKey
    /\ puts = EmptyDB
    /\ last = Result(0, "none", <<>>, <<>>, "nil", <<>>)

NextPath == NextOn({1}, {Key1}, {Str_a, Str_b}, {Str_x}, {Nonce1}, MaxEntries)

SpecPath == InitPath /\ [][NextPath]_vars

\* No permission bit for the group or for others
OwnerOnly(perm) == perm % 64 = 0

\* C17: a container file the store created has the bits 0600, and a
\* directory the store created has no bit for the group or for others.
C17_OwnerOnly ==
    /\ (file.exists /\ genKey # NoKey) => file.perm = FilePerm /\ OwnerOnly(file.perm)
    /\ file.dirPerm # 0 => OwnerOnly(file.dirPerm)

---------------------------------------------------------------------------
(* A table that holds records the scans cannot read *)

\* Records whose map key is not base64, is sealed under another key, or is
\* base64 of fewer bytes than a nonce
JunkRecords ==
    { <<NotBase64, Sealed(Key1, Str_y, Nonce1)>>,
      <<Sealed(Key2, Str_a, Nonce1), Sealed(Key2, Str_y, Nonce1)>>,
      <<ShortBase64, NotBase64>> }

\* The table with the reserved record of Key1, the record "a" -> "x" and the
\* records of junk
JunkTable(junk) ==
    [k \in {j[1] : j \in junk} |-> (CHOOSE j \in junk : j[1] = k)[2]]
        @@ MapSet(MapSet(EmptyDB, Str_k, SprintfHex(Key1)),
                  Sealed(Key1, Str_a, Nonce1), Sealed(Key1, Str_x, Nonce1))

\* Files on disk before the first open, holding none, one or two such records
ScanFiles ==
    { OnDisk(EncodeDB(JunkTable(junk), CHOOSE o \in Orders(JunkTable(junk)) : TRUE))
      : junk \in { j \in SUBSET JunkRecords : Cardinality(j) <= 2 } }

InitScan ==
    /\ file \in ScanFiles
    /\ cfg = [i \in Insts |-> NilCfg]
    /\ genKey = NoKey
    /\ puts = EmptyDB
    /\ last = Result(0, "none", <<>>, <<>>, "nil", <<>>)

NextScan == NextOn({1}, {Key1}, {Str_a, Str_b}, {Str_x}, {Nonce1}, MaxEntries)

SpecScan == InitScan /\ [][NextScan]_vars

\* The records of c, beside the reserved one, whose map key decodes and opens
\* and whose value decodes and opens
ValidRecords(c) ==
    { k \in (DOMAIN c.DB) \ {Str_k} :
          OpenString(c.Key, k).err = "nil" /\ OpenString(c.Key, c.DB[k]).err = "nil" }

\* The records of c whose map key does not decode or does not open
UnreadableRecords(c) ==
    { k \in (DOMAIN c.DB) \ {Str_k} : OpenString(c.Key, k).err # "nil" }

\* C18: however many records with an unreadable map key the table holds and
\* whatever the order of the scan, for the key of every valid record
\* Retrieve returns its value, ListKeys contains it and Delete finds that
\* record; ListKeys returns no item for an unreadable record.
C18_ScanResilient ==
    cfg[1].open =>
        /\ \A k \in ValidRecords(cfg[1]) :
              LET key == OpenString(cfg[1].Key, k).text
                  value == OpenString(cfg[1].Key, cfg[1].DB[k]).text
              IN  /\ RetrieveOutcomes(cfg[1], key) = { [err |-> "nil", text |-> value] }
                  /\ \A keys \in ListKeysOutcomes(cfg[1]) : key \in Range(keys)
                  /\ DeleteMatches(cfg[1], key) = { [found |-> TRUE, k |-> k] }
        /\ \A keys \in ListKeysOutcomes(cfg[1]) :
              Len(keys) = Cardinality((DOMAIN cfg[1].DB) \ {Str_k})
                              - Cardinality(UnreadableRecords(cfg[1]))

\* C18 happens: Retrieve("a") has returned "x" from a table that holds two
\* unreadable records, one of them base64 that does not open.
C18_Witness ==
    /\ cfg[1].open
    /\ last.op = "Retrieve" /\ last.key = Str_a
    /\ last.err = "nil" /\ last.out = <<Str_x>>
    /\ Cardinality(UnreadableRecords(cfg[1])) = 2
    /\ \E k \in UnreadableRecords(cfg[1]) :
          OpenString(cfg[1].Key, k).err = "failed to decrypt"

---------------------------------------------------------------------------
(* Calls that change nothing, and writes that fail *)

\* C19: a step in which Retrieve or ListKeys returns, or Delete returns "key
\* not found", leaves the table of every instance and the file as they were.
C19_ReadsChangeNothing ==
    [][(\/ last'.op \in {"Retrieve", "ListKeys"}
        \/ (last'.op = "Delete" /\ last'.err = "key not found"))
           => UNCHANGED <<file, cfg>>]_vars

\* C19 happens: Delete has returned "key not found" on a table that holds a
\* record, and the file still decodes to that table.
C19_Witness ==
    /\ last.op = "Delete" /\ last.err = "key not found"
    /\ Cardinality(DOMAIN cfg[1].DB) >= 2
    /\ FileTable.DB = cfg[1].DB

\* One store instance whose writes may fail
NextFail ==
    \/ \E newKey \in {Key1}, wok \in BOOLEAN : NewConfigWithFile(1, newKey, wok)
    \/ \E key \in {Str_a, Str_b}, wok \in BOOLEAN :
          /\ StoreBound(1, key, Nonce1, MaxEntries)
          /\ Store(1, key, Str_x, Nonce1, Nonce1, wok)
    \/ \E key \in {Str_a, Str_b} : Retrieve(1, key)
    \/ ListKeys(1)
    \/ \E key \in {Str_a, Str_b}, wok \in BOOLEAN : Delete(1, key, wok)

SpecFail == Init /\ [][NextFail]_vars

\* C20: after a Store or Delete that returned an error, the table in memory
\* is the table the file decodes to, so Retrieve and ListKeys return what is
\* on disk.
C20_FailedWriteChangesNothing ==
    (last.op \in {"Store", "Delete"} /\ last.err # "nil" /\ last.err # "key not found")
        => /\ cfg[last.inst].DB = FileTable.DB
           /\ \A key \in {Str_a, Str_b} :
                 RetrieveOutcomes(cfg[last.inst], key)
                     = RetrieveOutcomes([cfg[last.inst] EXCEPT !.DB = FileTable.DB], key)

---------------------------------------------------------------------------
(* Records per plaintext key *)

\* The plaintext keys of the records of c, beside the reserved one
KeysHeld(c) ==
    { ScanKey(c, k).text : k \in { x \in DOMAIN c.DB : ~ScanKey(c, x).skip } }

\* C21: at most one record of the table opens to any plaintext key, so
\* ListKeys returns no key twice and the table holds as many records beside
\* the reserved one as there are distinct keys stored.
C21_OneRecordPerKey ==
    cfg[1].open =>
        /\ \A key \in KeysHeld(cfg[1]) : Cardinality(Matching(cfg[1], key)) = 1
        /\ \A keys \in ListKeysOutcomes(cfg[1]) : Len(keys) = Cardinality(Range(keys))
        /\ Cardinality(DOMAIN cfg[1].DB) - 1 = Cardinality(KeysHeld(cfg[1]))

=============================================================================
